---- MODULE Spec2Model ----
(***************************************************************************)
(* A model of the weather-vision widget: the retry helper and the error    *)
(* classifier (src/src/utils/errorHandler.ts), the persistence adapter     *)
(* (src/src/services/StorageService.ts), the caching weather client        *)
(* (WeatherServiceImpl, src/unnamed/part_002) and the city-collection      *)
(* state machine (src/src/components/WeatherWidget.vue) with the           *)
(* management list that drives it (src/src/components/SettingsMode.vue).   *)
(*                                                                         *)
(* Six specifications share the definitions:                               *)
(*   Spec           the widget: mount, bootstrap, add/remove/reorder, retry *)
(*   SpecRetry      retryWithBackoff on its own, against a reference run    *)
(*   SpecCache      the weather clients' caches under a clock               *)
(*   SpecStorage    the persistence adapter over a localStorage model       *)
(*   SpecLifecycle  the widget's timers up to and after its removal         *)
(*   SpecClassify   the failures of the clients and their classification    *)
(***************************************************************************)
EXTENDS Integers, Sequences, FiniteSets, TLC

VARIABLES
    \* ---- WeatherWidget.vue state (lines 59-63) ----
    cities,            \* ref<City[]>
    mode,              \* 'display' | 'settings'
    globalError,       \* string | null
    canRetry,          \* boolean
    lastFailedAction,  \* (() => Promise<void>) | null
    \* ---- the widget's asynchronous operations in flight ----
    mounted,           \* has onMounted run
    boot,              \* the geolocation bootstrap (initializeWithGeolocation / its action)
    ops,               \* the addCity calls in flight
    \* ---- SettingsMode.vue state (lines 134-137) and ErrorBoundary ----
    errorMessage,      \* SettingsMode's inline message
    draggedIndex,      \* number | null
    hasError,          \* ErrorBoundary.hasError
    \* ---- environment ----
    lsItem,            \* what localStorage holds under STORAGE_KEY
    lsEnv,             \* the condition of localStorage
    now,               \* Date.now(); in Spec it advances with every city created
    \* ---- retryWithBackoff on its own (SpecRetry) ----
    rt,
    \* ---- WeatherServiceImpl cache (SpecCache) ----
    cache, lookup,
    \* ---- StorageService on its own (SpecStorage) ----
    st,
    \* ---- DisplayMode.vue's refresh interval and the widget's disposal (SpecLifecycle) ----
    life,
    \* ---- the failures of the clients as the widget's catch blocks classify them ----
    cl,
    \* ---- the wind of a transformed response (SpecWind) ----
    wind

vars == << cities, mode, globalError, canRetry, lastFailedAction, mounted, boot, ops,
           errorMessage, draggedIndex, hasError, lsItem, lsEnv, now, rt, cache,
           lookup, st, life, cl, wind >>

widgetVars == << cities, mode, globalError, canRetry, lastFailedAction, mounted, boot,
                 ops, errorMessage, draggedIndex, hasError >>

\* what the specifications of one component leave alone
notRetry == << widgetVars, lsItem, lsEnv, now, cache, lookup, st, life, cl, wind >>
notCache == << widgetVars, lsItem, lsEnv, rt, st, life, cl, wind >>
notStorage == << widgetVars, rt, cache, lookup, life, cl, wind >>
notLifecycle == << widgetVars, lsItem, lsEnv, now, rt, cache, lookup, st, cl, wind >>
notClassify == << widgetVars, lsItem, lsEnv, now, rt, cache, lookup, st, life, wind >>
notWind == << widgetVars, lsItem, lsEnv, now, rt, cache, lookup, st, life, cl >>
notWidget == << rt, cache, lookup, st, life, cl, wind >>

-----------------------------------------------------------------------------
(* Bounds of the model *)

\* how many cities the list is allowed to grow to
MaxCities == 2
\* how many addCity calls may be in flight at once
MaxOps == 1
\* the widget's clock runs 1 .. MaxNow + 1: a city is created at each of 1 .. MaxNow
MaxNow == 3

-----------------------------------------------------------------------------
(* JavaScript values *)

NULL == [null |-> TRUE]
Undefined == [undefined |-> TRUE]
\* a finite number and the not-a-number value
Num(n) == [num |-> n]
NaN == [nan |-> TRUE]
IsFiniteNum(v) == DOMAIN v = {"num"}
\* typeof v === 'number'
TypeofNumber(v) == DOMAIN v = {"num"} \/ DOMAIN v = {"nan"}

Min(a, b) == IF a < b THEN a ELSE b

RECURSIVE Pow(_, _)
\* Math.pow(b, e) for a natural exponent
Pow(b, e) == IF e = 0 THEN 1 ELSE b * Pow(b, e - 1)

\* Array.prototype.splice(i, 1) with a 0-based index: nothing goes when i >= length
SpliceOut(s, i) ==
    IF i >= Len(s) THEN s
    ELSE SubSeq(s, 1, i) \o SubSeq(s, i + 2, Len(s))

\* Array.prototype.splice(i, 0, x) with a 0-based index: i is clamped to the length
SpliceIn(s, i, x) ==
    LET j == Min(i, Len(s))
    IN  SubSeq(s, 1, j) \o << x >> \o SubSeq(s, j + 1, Len(s))

-----------------------------------------------------------------------------
(* City names: what the user types and what the provider answers *)

\* String.prototype.toLowerCase on the names of the model
Lower(s) ==
    CASE s = "Paris" -> "paris"
      [] s = "PARIS" -> "paris"
      [] s = "Roma"  -> "roma"
      [] s = "Rome"  -> "rome"
      [] s = "Oslo"  -> "oslo"
      [] s = " Paris " -> " paris "
      [] OTHER       -> s

\* String.prototype.trim on the names and inputs of the model
Trim(s) ==
    CASE s = "  "      -> ""
      [] s = " Paris " -> "Paris"
      [] s = " paris " -> "paris"
      [] OTHER         -> s

\* the provider's answer for a query: its canonical name, country and coordinates
ProviderPlace(q) ==
    IF Trim(Lower(q)) = "paris"
    THEN [ name |-> "Paris", country |-> "FR", lat |-> Num(48), lon |-> Num(2) ]
    ELSE [ name |-> "Rome",  country |-> "IT", lat |-> Num(41), lon |-> Num(12) ]

\* the place the device is at, as "Name, CountryCode" resolves it
DevicePlace == [ name |-> "Paris", country |-> "FR", lat |-> Num(48), lon |-> Num(2) ]

\* const city: City = { id: `${name}-${country}-${Date.now()}`, ... , addedAt: Date.now() }
NewCity(place, t) ==
    [ id          |-> << place.name, place.country, t >>,
      name        |-> place.name,
      country     |-> place.country,
      coordinates |-> [ lat |-> place.lat, lon |-> place.lon ],
      addedAt     |-> t ]

-----------------------------------------------------------------------------
(* Errors and their classification: src/src/utils/errorHandler.ts *)

\* new Error(message) and new TypeError(message)
Err(message) == [ name |-> "Error", message |-> message ]
TypeErr(message) == [ name |-> "TypeError", message |-> message ]
\* globalErrorHandler.createError(message, code): a WeatherWidgetError (24-35, 124-131)
createError(message, code) == [ name |-> "WeatherWidgetError", message |-> message, code |-> code ]
\* a rejection with a value that is no Error instance (a string)
Thrown(text) == [ thrown |-> text ]
\* error instanceof Error
InstanceofError(e) == "name" \in DOMAIN e

\* The substrings the classifier looks for (errorHandler.ts 189-258), and which
\* of them each message of the program contains once lowercased.
MarkersOf(message) ==
    CASE message = "API rate limit exceeded. Please try again later." -> { "rate limit" }
      [] message = "City not found. Please check the city name and try again." -> { "not found" }
      [] message = "Invalid API key. Please check your configuration." -> { "invalid api key" }
      [] message = "Network error. Please check your internet connection." -> { "network", "connection" }
      [] message = "Failed to fetch" -> { "fetch" }
      [] message = "Storage quota exceeded. Please clear some browser data." -> { "storage", "quota" }
      [] message = "Geolocation is not supported by your browser" -> { "geolocation" }
      [] message = "Geolocation permission denied. Please enable location access to use this feature."
            -> { "geolocation", "permission" }
      [] message = "Geolocation request timed out. Please try again." -> { "geolocation" }
      [] message = "Invalid API key for geocoding service" -> { "invalid api key" }
      [] message = "Geocoding request failed with status 404" -> { "404" }
      [] message = "Geocoding request failed with status 429" -> { "429" }
      [] message = "Network error during reverse geocoding. Please check your internet connection."
            -> { "network", "connection" }
      [] OTHER -> { }

\* error.message.toLowerCase().includes(marker)
Includes(e, marker) == marker \in MarkersOf(e.message)

isNetworkError(e) ==
    \/ Includes(e, "network")
    \/ Includes(e, "fetch")
    \/ Includes(e, "connection")
    \/ Includes(e, "timeout")
    \/ e.name = "NetworkError"
    \/ e.name = "TypeError"

isRateLimitError(e) == Includes(e, "rate limit") \/ Includes(e, "429")

isTransientError(e) ==
    IF \/ Includes(e, "invalid api key")
       \/ Includes(e, "unauthorized")
       \/ Includes(e, "401")
       \/ Includes(e, "not found")
       \/ Includes(e, "404")
    THEN FALSE
    ELSE isNetworkError(e) \/ isRateLimitError(e)

getUserFriendlyMessage(e) ==
    IF e.name = "WeatherWidgetError"
    THEN \* error instanceof WeatherWidgetError: its own message (229-232)
         e.message
    ELSE IF Includes(e, "invalid api key") \/ Includes(e, "unauthorized") \/ Includes(e, "401")
    THEN "Weather service configuration error. Please contact the website administrator."
    ELSE IF isNetworkError(e)
    THEN "Unable to connect to the weather service. Please check your internet connection."
    ELSE IF isRateLimitError(e)
    THEN "Too many requests. Please try again in a few moments."
    ELSE IF Includes(e, "not found") \/ Includes(e, "404")
    THEN "City not found. Please check the name and try again."
    ELSE IF Includes(e, "storage") \/ Includes(e, "quota")
    THEN "Unable to save settings. Your browser storage may be full."
    ELSE IF Includes(e, "geolocation") \/ Includes(e, "permission")
    THEN "Unable to access your location. Please check browser permissions."
    ELSE "An unexpected error occurred. Please try again."

\* const err = error instanceof Error ? error : new Error(String(error))
AsError(e) == IF InstanceofError(e) THEN e ELSE Err(e.thrown)

-----------------------------------------------------------------------------
(* retryWithBackoff: src/src/utils/errorHandler.ts 144-183 *)

\* the defaults of the options (lines 149-151)
DefaultMaxAttempts == 3
DefaultDelayMs == 1000
DefaultBackoffMultiplier == 2

\* what an onRetry observer may do: there is none, it returns, or it throws
Observers == { "none", "returns", "throws" }
ObserverError == Err("observer failed")

\* const delay = delayMs * Math.pow(backoffMultiplier, attempt - 1)
BackoffDelay(delayMs, backoffMultiplier, attempt) ==
    delayMs * Pow(backoffMultiplier, attempt - 1)

\* the catch block with onRetry called before the test for the last attempt
RetryCatch_ObservesFinal(attempt, error, maxAttempts, delayMs, backoffMultiplier, onRetry) ==
    LET lastError == AsError(error)
    IN  IF onRetry = "throws"
        THEN [ next |-> "reject", error |-> ObserverError, observed |-> TRUE, delay |-> 0 ]
        ELSE IF attempt = maxAttempts
        THEN [ next |-> "reject", error |-> lastError, observed |-> (onRetry # "none"),
               delay |-> 0 ]
        ELSE [ next     |-> "wait",
               error    |-> lastError,
               observed |-> (onRetry # "none"),
               delay    |-> BackoffDelay(delayMs, backoffMultiplier, attempt) ]

\* The catch block of the loop (lines 160-178) for the failure `error` of attempt
\* `attempt`: what happens next, the value of lastError, whether onRetry was
\* called, and the delay handed to setTimeout.
RetryCatch(attempt, error, maxAttempts, delayMs, backoffMultiplier, onRetry) ==
    LET lastError == AsError(error)
    IN  IF attempt = maxAttempts
        THEN \* break; throw lastError
             [ next |-> "reject", error |-> lastError, observed |-> FALSE, delay |-> 0 ]
        ELSE IF onRetry = "throws"
        THEN \* onRetry(attempt, lastError) throws inside the catch block
             [ next |-> "reject", error |-> ObserverError, observed |-> TRUE, delay |-> 0 ]
        ELSE [ next     |-> "wait",
               error    |-> lastError,
               observed |-> (onRetry # "none"),
               delay    |-> BackoffDelay(delayMs, backoffMultiplier, attempt) ]

-----------------------------------------------------------------------------
(* SpecRetry: retryWithBackoff called on an operation whose behaviour at each  *)
(* attempt is fixed by a plan. Two runs consume the same plan: "observed" has  *)
(* the observer of the configuration, "plain" has no observer.                 *)

\* the largest maxAttempts the runs are given
MaxTries == 3

\* what one invocation of the operation does: it resolves, or it rejects with a value
Failures == { Err("Network error. Please check your internet connection."),
              Err("City not found. Please check the city name and try again."),
              Thrown("boom") }
Behaviours == { [ ok |-> TRUE ] } \cup { [ fail |-> e ] : e \in Failures }

RunIds == { "observed", "plain" }

\* a run before its first attempt
FreshRun ==
    [ pc        |-> "call",   \* call | waiting | resolved | rejected
      attempt   |-> 1,        \* the loop variable
      calls     |-> 0,        \* invocations of fn so far
      waits     |-> << >>,    \* the delays handed to setTimeout, in order
      observed  |-> << >>,    \* the attempt numbers onRetry was called with, in order
      results   |-> << >>,    \* what each invocation of fn did, in order
      outcome   |-> NULL ]    \* what the returned promise settled with

IdleRetry == [ cfg |-> NULL, plan |-> << >>, run |-> [ r \in RunIds |-> FreshRun ] ]

ObserverOf(r) == IF r = "observed" THEN rt.cfg.onRetry ELSE "none"

\* One iteration of the loop of run r: `return await fn()` or the catch block.
RetryAttempt(r) ==
    LET run == rt.run[r]
        b   == rt.plan[run.attempt]
        called == [ run EXCEPT !.calls = @ + 1, !.results = Append(@, b) ]
    IN  /\ rt.cfg # NULL
        /\ run.pc = "call"
        /\ UNCHANGED notRetry
        /\ IF "ok" \in DOMAIN b
           THEN rt' = [ rt EXCEPT !.run[r] =
                    [ called EXCEPT !.pc = "resolved",
                                    !.outcome = [ resolved |-> run.attempt ] ] ]
           ELSE LET c == RetryCatch(run.attempt, b.fail, rt.cfg.maxAttempts,
                                    rt.cfg.delayMs, rt.cfg.backoffMultiplier,
                                    ObserverOf(r))
                    seen == IF c.observed
                            THEN [ called EXCEPT !.observed = Append(@, run.attempt) ]
                            ELSE called
                IN  IF c.next = "reject"
                    THEN rt' = [ rt EXCEPT !.run[r] =
                             [ seen EXCEPT !.pc = "rejected",
                                           !.outcome = [ rejected |-> c.error ] ] ]
                    ELSE rt' = [ rt EXCEPT !.run[r] =
                             [ seen EXCEPT !.pc = "waiting",
                                           !.waits = Append(@, c.delay) ] ]

\* the timer of the backoff delay fires: attempt++ and the loop goes round
RetryTimer(r) ==
    /\ rt.cfg # NULL
    /\ rt.run[r].pc = "waiting"
    /\ rt' = [ rt EXCEPT !.run[r].pc = "call", !.run[r].attempt = @ + 1 ]
    /\ UNCHANGED notRetry

-----------------------------------------------------------------------------
(* JSON: what JSON.stringify writes and JSON.parse reads back.              *)
(* A JSON value is tagged: [num], [str], [null], [arr] or [obj].            *)

Str(x) == [ str |-> x ]
Arr(seq) == [ arr |-> seq ]
Obj(rec) == [ obj |-> rec ]

IsObj(v) == DOMAIN v = { "obj" }
IsArr(v) == DOMAIN v = { "arr" }
IsStr(v) == DOMAIN v = { "str" }
IsNum(v) == DOMAIN v = { "num" }
\* v.f of a parsed value: undefined when v has no such property
Get(v, f) == IF IsObj(v) /\ f \in DOMAIN v.obj THEN v.obj[f] ELSE Undefined
\* a parsed value is truthy unless it is null or undefined (0 and "" are not stored here)
Truthy(v) == v # NULL /\ v # Undefined

\* JSON.stringify of a number: NaN and the infinities are written as null
NumToJson(n) == IF IsFiniteNum(n) THEN n ELSE NULL

\* JSON.stringify of one element of the cities array: undefined is written as null
CityToJson(c) ==
    IF c = Undefined THEN NULL
    ELSE Obj([ id          |-> Str(c.id),
               name        |-> Str(c.name),
               country     |-> Str(c.country),
               coordinates |-> Obj([ lat |-> NumToJson(c.coordinates.lat),
                                     lon |-> NumToJson(c.coordinates.lon) ]),
               addedAt     |-> Num(c.addedAt) ])

\* the City that JSON.parse builds from a stored city that passed areValidCities
CityFromJson(j) ==
    [ id          |-> j.obj.id.str,
      name        |-> j.obj.name.str,
      country     |-> j.obj.country.str,
      coordinates |-> [ lat |-> j.obj.coordinates.obj.lat,
                        lon |-> j.obj.coordinates.obj.lon ],
      addedAt     |-> j.obj.addedAt.num ]

-----------------------------------------------------------------------------
(* StorageService: src/src/services/StorageService.ts *)

STORAGE_VERSION == 1

\* localStorage holds nothing under STORAGE_KEY, a text that is no JSON, or a JSON text
NoItem == [ none |-> TRUE ]
Garbage == [ text |-> "invalid json{" ]
\* the empty string: a stored value that is falsy, and no JSON text either
EmptyText == [ text |-> "" ]
Doc(v) == [ doc |-> v ]

\* The condition localStorage is in:
\*   ok           every write succeeds
\*   nearlyFull   the probe's small write succeeds, a write of the record exceeds the quota
\*   full         every write exceeds the quota, the probe's too
\*   unavailable  every access throws (storage disabled)
StorageConditions == { "ok", "nearlyFull", "full", "unavailable" }

\* localStorage.setItem throws: storage is disabled, or the value does not fit
\* (what is "probe" for the test key of isStorageAvailable, "record" for the schema)
SetItemThrows(env, what) ==
    \/ env = "unavailable"
    \/ env = "full"
    \/ env = "nearlyFull" /\ what = "record"

\* localStorage.removeItem throws: storage is disabled
RemoveItemThrows(env) == env = "unavailable"

\* the message of the error saveCities throws for a QuotaExceededError (line 99)
QuotaMessage == "Storage quota exceeded. Please clear some browser data."

\* isStorageAvailable with the probe left out
isStorageAvailable_NoProbe(env) == TRUE

\* isStorageAvailable (127-136): setItem and removeItem of a test key did not throw
isStorageAvailable(env) == ~SetItemThrows(env, "probe") /\ ~RemoveItemThrows(env)

\* JSON.stringify(schema) of saveCities (82-89)
Stringify(list, t) ==
    Doc(Obj([ version     |-> Num(STORAGE_VERSION),
              cities      |-> Arr([ i \in 1 .. Len(list) |-> CityToJson(list[i]) ]),
              lastUpdated |-> Num(t) ]))

\* areValidCities (155-167)
areValidCities(arr) ==
    \A i \in 1 .. Len(arr) :
        LET city == arr[i]
        IN  /\ Truthy(city)
            /\ IsObj(city)
            /\ IsStr(Get(city, "id"))
            /\ IsStr(Get(city, "name"))
            /\ IsStr(Get(city, "country"))
            /\ Truthy(Get(city, "coordinates"))
            /\ IsNum(Get(Get(city, "coordinates"), "lat"))
            /\ IsNum(Get(Get(city, "coordinates"), "lon"))
            /\ IsNum(Get(city, "addedAt"))

\* isValidSchema (141-150)
isValidSchema(schema) ==
    /\ Truthy(schema)
    /\ IsObj(schema) \/ IsArr(schema)
    /\ IsNum(Get(schema, "version"))
    /\ IsArr(Get(schema, "cities"))
    /\ IsNum(Get(schema, "lastUpdated"))
    /\ areValidCities(Get(schema, "cities").arr)

\* clearCities (110-121): what is left under STORAGE_KEY
clearCities(env, item) ==
    IF isStorageAvailable(env) /\ ~RemoveItemThrows(env) THEN NoItem ELSE item

\* clearCities (110-121): the error it throws, if any (removeItem threw)
clearCitiesRaised(env) ==
    IF ~isStorageAvailable(env) THEN NULL
    ELSE IF RemoveItemThrows(env) THEN [ name |-> "DOMException", message |-> "SecurityError" ]
    ELSE NULL

\* getCities with the version test inverted (=== for !==)
getCities_VersionTestInverted(env, item) ==
    IF ~isStorageAvailable(env)
    THEN [ cities |-> << >>, item |-> item ]
    ELSE IF item = NoItem \/ item = EmptyText
    THEN \* if (!data): getItem gave null or the empty string
         [ cities |-> << >>, item |-> item ]
    ELSE IF "doc" \notin DOMAIN item
    THEN [ cities |-> << >>, item |-> clearCities(env, item) ]
    ELSE IF ~isValidSchema(item.doc)
    THEN [ cities |-> << >>, item |-> clearCities(env, item) ]
    ELSE IF Get(item.doc, "version") = Num(STORAGE_VERSION)
    THEN [ cities |-> << >>, item |-> clearCities(env, item) ]
    ELSE LET arr == Get(item.doc, "cities").arr
         IN  [ cities |-> [ i \in 1 .. Len(arr) |-> CityFromJson(arr[i]) ],
               item   |-> item ]

\* getCities (21-67): the list returned and what is left under STORAGE_KEY
getCities(env, item) ==
    IF ~isStorageAvailable(env)
    THEN [ cities |-> << >>, item |-> item ]
    ELSE IF item = NoItem \/ item = EmptyText
    THEN \* if (!data): getItem gave null or the empty string
         [ cities |-> << >>, item |-> item ]
    ELSE IF "doc" \notin DOMAIN item
    THEN \* JSON.parse throws: the catch block clears
         [ cities |-> << >>, item |-> clearCities(env, item) ]
    ELSE IF ~isValidSchema(item.doc)
    THEN [ cities |-> << >>, item |-> clearCities(env, item) ]
    ELSE IF Get(item.doc, "version") # Num(STORAGE_VERSION)
    THEN [ cities |-> << >>, item |-> clearCities(env, item) ]
    ELSE LET arr == Get(item.doc, "cities").arr
         IN  [ cities |-> [ i \in 1 .. Len(arr) |-> CityFromJson(arr[i]) ],
               item   |-> item ]

\* saveCities (73-105): what is left under STORAGE_KEY and the error thrown, if any
saveCities(env, item, list, t) ==
    IF ~isStorageAvailable(env)
    THEN [ item |-> item, raised |-> NULL ]
    ELSE IF SetItemThrows(env, "record")
    THEN \* setItem throws a QuotaExceededError DOMException
         [ item   |-> item,
           raised |-> Err(QuotaMessage) ]
    ELSE [ item |-> Stringify(list, t), raised |-> NULL ]

-----------------------------------------------------------------------------
(* WeatherServiceImpl and its cache: src/unnamed/part_002 333-569 *)

\* const CACHE_DURATION_MS = 10 * 60 * 1000
CACHE_DURATION_MS == 600000

NoEntry == [ none |-> TRUE ]

\* `city:${cityName.toLowerCase()}` and `coords:${lat},${lon}`
CityKey(cityName) == << "city", Lower(cityName) >>
CoordsKey(lat, lon) == << "coords", lat, lon >>

\* getFromCache with the expiry test written as age >= CACHE_DURATION_MS
getFromCache_ExpiresAtTtl(c, key, t) ==
    LET entry == c[key]
    IN  IF entry = NoEntry
        THEN [ data |-> NULL, cache |-> c ]
        ELSE IF t - entry.timestamp >= CACHE_DURATION_MS
        THEN [ data |-> NULL, cache |-> [ c EXCEPT ![key] = NoEntry ] ]
        ELSE [ data |-> entry.data, cache |-> c ]

\* getFromCache (540-556) on the Map c at time t: the data returned (or null)
\* and the Map afterwards
getFromCache(c, key, t) ==
    LET entry == c[key]
    IN  IF entry = NoEntry
        THEN [ data |-> NULL, cache |-> c ]
        ELSE IF t - entry.timestamp > CACHE_DURATION_MS
        THEN [ data |-> NULL, cache |-> [ c EXCEPT ![key] = NoEntry ] ]
        ELSE [ data |-> entry.data, cache |-> c ]

\* transformResponse (495-516), as far as the snapshot's identity goes
WeatherData(place, t) == [ cityId |-> << place.name, place.country >>, fetchedAt |-> t ]

\* this.cache.set(cacheKey, { data: weatherData, timestamp: Date.now() })
CacheSet(c, key, data, t) == [ c EXCEPT ![key] = [ data |-> data, timestamp |-> t ] ]

-----------------------------------------------------------------------------
(* The parts of the state a specification does not use stay as constructed. *)

IdleBoot == [ pc |-> "none", attempt |-> 0, lastError |-> NULL, viaRetry |-> FALSE ]
IdleOp == [ pc |-> "idle", name |-> "", attempt |-> 0, lastError |-> NULL, viaRetry |-> FALSE ]
IdleCache == [ i \in { } |-> NoEntry ]
IdleLookup == [ pending |-> { }, last |-> NULL, shownAt |-> 0 ]
IdleStorage == [ lastSave |-> NULL, replaced |-> FALSE, loaded |-> NULL ]
\* no failure was classified yet
IdleClassify == << >>
\* no response was transformed yet
IdleWind == [ degrees |-> NULL, direction |-> NULL ]
\* the widget element is in the page, DisplayMode has not run its onMounted yet
IdleLife == [ disposed |-> FALSE, displayMounted |-> FALSE, refreshIntervalId |-> NULL,
              intervals |-> { }, made |-> 0, refreshes |-> 0, requested |-> { } ]

InitWidget ==
    /\ cities = << >>
    /\ mode = "display"
    /\ globalError = NULL
    /\ canRetry = FALSE
    /\ lastFailedAction = NULL
    /\ mounted = FALSE
    /\ boot = IdleBoot
    /\ ops = [ i \in 1 .. MaxOps |-> IdleOp ]
    /\ errorMessage = ""
    /\ draggedIndex = NULL
    /\ hasError = FALSE

\* the same, of the next state
WidgetAsConstructed ==
    /\ cities' = << >>
    /\ mode' = "display"
    /\ globalError' = NULL
    /\ canRetry' = FALSE
    /\ lastFailedAction' = NULL
    /\ mounted' = FALSE
    /\ boot' = IdleBoot
    /\ ops' = [ i \in 1 .. MaxOps |-> IdleOp ]
    /\ errorMessage' = ""
    /\ draggedIndex' = NULL
    /\ hasError' = FALSE

-----------------------------------------------------------------------------
(* SpecRetry *)

\* the plans of n attempts
Plans(n) == [ 1 .. n -> Behaviours ]

InitRetry ==
    /\ InitWidget
    /\ lsItem = NoItem /\ lsEnv = "ok" /\ now = 0
    /\ cache = IdleCache /\ lookup = IdleLookup /\ st = IdleStorage
    /\ life = IdleLife /\ cl = IdleClassify /\ wind = IdleWind
    /\ \E n \in 1 .. MaxTries, o \in Observers :
         \E plan \in Plans(n) :
            rt = [ cfg  |-> [ maxAttempts |-> n, delayMs |-> DefaultDelayMs,
                              backoffMultiplier |-> DefaultBackoffMultiplier,
                              onRetry |-> o ],
                   plan |-> plan,
                   run  |-> [ r \in RunIds |-> FreshRun ] ]

NextRetry ==
    \/ \E r \in RunIds : RetryAttempt(r)
    \/ \E r \in RunIds : RetryTimer(r)

SpecRetry == InitRetry /\ [][NextRetry]_vars

-----------------------------------------------------------------------------
(* SpecCache: lookups by city name against the caches of the service instances *)

\* createWeatherService is called by WeatherWidget.vue (56) and by DisplayMode.vue (67)
Instances == { "widget", "display" }
\* the names getWeatherByCity is called with: a name, the same in capitals, and
\* the same with surrounding whitespace
LookupNames == { "Paris", "PARIS", " Paris " }
CacheKeys == { CityKey(n) : n \in LookupNames }

\* setInterval(..., 10 * 60 * 1000) of DisplayMode.setupPeriodicRefresh
REFRESH_INTERVAL_MS == 600000

\* the clock of SpecCache visits the instants around the multiples of the TTL
MaxPeriods == 1
Instants == { t \in { k * CACHE_DURATION_MS + d : k \in 0 .. MaxPeriods, d \in { -1, 0, 1 } } : t >= 0 }
\* how many provider requests may be in flight at once
MaxPending == 1

\* getWeatherByCity (358-379) up to its first await: the cache is consulted, and
\* on a miss the provider is contacted
CacheLookup(inst, cityName) ==
    LET key == CityKey(cityName)
        got == getFromCache(cache[inst], key, now)
        req == [ inst |-> inst, name |-> cityName ]
    IN  /\ got.data = NULL => Cardinality(lookup.pending \cup { req }) <= MaxPending
        /\ cache' = [ cache EXCEPT ![inst] = got.cache ]
        /\ lookup' =
             [ pending |-> IF got.data = NULL THEN lookup.pending \cup { req }
                           ELSE lookup.pending,
               last    |-> [ inst      |-> inst,
                             key       |-> key,
                             at        |-> now,
                             contacted |-> (got.data = NULL),
                             data      |-> got.data ],
               shownAt |-> lookup.shownAt ]
        /\ UNCHANGED << now, notCache >>

\* the provider answers: transformResponse, cache.set (370-378)
CacheFetchDone(p) ==
    /\ p \in lookup.pending
    /\ cache' = [ cache EXCEPT ![p.inst] =
                    CacheSet(@, CityKey(p.name), WeatherData(ProviderPlace(p.name), now), now) ]
    /\ lookup' = [ lookup EXCEPT !.pending = @ \ { p } ]
    /\ UNCHANGED << now, notCache >>

\* fetchWithErrorHandling throws: nothing is cached
CacheFetchFail(p) ==
    /\ p \in lookup.pending
    /\ lookup' = [ lookup EXCEPT !.pending = @ \ { p } ]
    /\ UNCHANGED << cache, now, notCache >>

\* DisplayMode is shown again after a stay in the settings: its setup creates a new
\* service (DisplayMode.vue 67) with an empty Map; answers still under way belong
\* to the instance that was dropped. Its onMounted fetches and starts the refresh
\* interval at that instant (140-143).
DisplayModeCreated ==
    /\ cache' = [ cache EXCEPT !["display"] = [ k \in CacheKeys |-> NoEntry ] ]
    /\ lookup' = [ lookup EXCEPT !.pending = { p \in @ : p.inst # "display" },
                                 !.shownAt = now ]
    /\ UNCHANGED << now, notCache >>

CacheTick ==
    /\ \E t \in Instants : t > now /\ now' = t
    /\ UNCHANGED << cache, lookup, notCache >>

InitCache ==
    /\ InitWidget
    /\ lsItem = NoItem /\ lsEnv = "ok" /\ now = 0
    /\ rt = IdleRetry /\ st = IdleStorage /\ life = IdleLife /\ cl = IdleClassify /\ wind = IdleWind
    /\ cache = [ i \in Instances |-> [ k \in CacheKeys |-> NoEntry ] ]
    /\ lookup = IdleLookup

NextCache ==
    \/ \E i \in Instances, n \in LookupNames : CacheLookup(i, n)
    \/ \E p \in lookup.pending : CacheFetchDone(p)
    \/ \E p \in lookup.pending : CacheFetchFail(p)
    \/ DisplayModeCreated
    \/ CacheTick

SpecCache == InitCache /\ [][NextCache]_vars

-----------------------------------------------------------------------------
(* SpecStorage: saveCities, getCities and clearCities on a localStorage that  *)
(* changes condition, starting from any record a previous session left.       *)

\* the longest list handed to saveCities
MaxListLen == 2

\* cities to save: two well-formed ones and one whose latitude is NaN
TestCities ==
    { NewCity(ProviderPlace("Paris"), 0),
      NewCity(ProviderPlace("Roma"), 1),
      [ NewCity(ProviderPlace("Roma"), 0) EXCEPT !.coordinates.lat = NaN ] }

RECURSIVE SeqsUpTo(_, _)
\* the sequences over S of length at most n
SeqsUpTo(S, n) ==
    IF n = 0 THEN { << >> }
    ELSE LET shorter == SeqsUpTo(S, n - 1)
         IN  shorter \cup { Append(q, x) : q \in shorter, x \in S }

TestLists == SeqsUpTo(TestCities, MaxListLen)

\* records a previous session, or something else, may have left under STORAGE_KEY
LeftBehind ==
    { NoItem,
      Garbage,
      EmptyText,
      \* test "should handle invalid schema structure": no cities array
      Doc(Obj([ version |-> Num(STORAGE_VERSION), lastUpdated |-> Num(0) ])),
      \* test "should handle version mismatch"
      Doc(Obj([ version |-> Num(999), cities |-> Arr(<< >>), lastUpdated |-> Num(0) ])),
      Stringify(<< NewCity(ProviderPlace("Paris"), 0) >>, 0) }

StSave(list) ==
    LET r == saveCities(lsEnv, lsItem, list, now)
    IN  /\ lsItem' = r.item
        /\ st' = [ lastSave |-> [ list |-> list, env |-> lsEnv, raised |-> r.raised ],
                   replaced |-> /\ st.lastSave # NULL
                                /\ st.lastSave.raised = NULL
                                /\ isStorageAvailable(st.lastSave.env)
                                /\ st.lastSave.list # list,
                   loaded   |-> NULL ]
        /\ UNCHANGED << lsEnv, now, notStorage >>

StLoad ==
    LET r == getCities(lsEnv, lsItem)
    IN  /\ lsItem' = r.item
        /\ st' = [ st EXCEPT !.loaded = [ cities |-> r.cities, env |-> lsEnv, from |-> lsItem ] ]
        /\ UNCHANGED << lsEnv, now, notStorage >>

StClear ==
    /\ lsItem' = clearCities(lsEnv, lsItem)
    /\ st' = [ lastSave |-> NULL, replaced |-> FALSE,
               loaded |-> [ cleared |-> TRUE, env |-> lsEnv, from |-> lsItem,
                            raised |-> clearCitiesRaised(lsEnv) ] ]
    /\ UNCHANGED << lsEnv, now, notStorage >>

\* the condition of localStorage changes (the quota fills up, storage is switched off)
StEnv ==
    /\ \E e \in StorageConditions : e # lsEnv /\ lsEnv' = e
    /\ st' = [ st EXCEPT !.loaded = NULL ]
    /\ UNCHANGED << lsItem, now, notStorage >>

InitStorage ==
    /\ InitWidget
    /\ rt = IdleRetry /\ cache = IdleCache /\ lookup = IdleLookup /\ life = IdleLife /\ cl = IdleClassify /\ wind = IdleWind
    /\ now = 0
    /\ lsItem \in LeftBehind
    /\ lsEnv \in StorageConditions
    /\ st = IdleStorage

NextStorage ==
    \/ \E list \in TestLists : StSave(list)
    \/ StLoad
    \/ StClear
    \/ StEnv

SpecStorage == InitStorage /\ [][NextStorage]_vars

-----------------------------------------------------------------------------
(* The widget: src/src/components/WeatherWidget.vue, driven by                *)
(* src/src/components/SettingsMode.vue and wrapped by ErrorBoundary.vue       *)
(* (src/unnamed/part_003).                                                    *)

\* the options addCity and initializeWithGeolocation pass to retryWithBackoff
ADD_MAX_ATTEMPTS == 3
ADD_DELAY_MS == 1000
ADD_BACKOFF_MULTIPLIER == 2
INIT_MAX_ATTEMPTS == 2
INIT_DELAY_MS == 1000

DuplicateMessage == "This city is already in your list"
LastCityMessage == "Cannot remove the last city"
SaveFailedMessage == "Failed to save cities. Your changes may not persist."

\* What the provider can answer to a request, and the error fetchWithErrorHandling
\* (part_002 422-463) throws for each answer but "ok"
ProviderAnswers == { "ok", "429", "404", "401", "500", "malformed", "offline" }
FetchError(answer) ==
    CASE answer = "429" -> Err("API rate limit exceeded. Please try again later.")
      [] answer = "404" -> Err("City not found. Please check the city name and try again.")
      [] answer = "401" -> Err("Invalid API key. Please check your configuration.")
      [] answer = "500" -> Err("API request failed with status 500")
      [] answer = "503" -> Err("API request failed with status 503")
      \* response.json() rejects: the body is no JSON
      [] answer = "notJson"
            -> [ name |-> "SyntaxError", message |-> "Unexpected token < in JSON at position 0" ]
      \* fetch rejects with a TypeError whose message has no "fetch": rethrown as it is
      [] answer = "loadFailed" -> TypeErr("Load failed")
      [] answer = "malformed" -> Err("Invalid response format from API")
      [] answer = "offline" -> Err("Network error. Please check your internet connection.")

\* addCity's own request (233-247): fetch rejects when offline; an answer without
\* sys makes `data.sys.country` throw
RawFetchAnswers == { "ok", "offline", "errorBody" }
\* the answers the widget's requests are given
AnswersToLookup == { "ok", "404", "offline" }
AnswersToFetch == { "ok", "offline" }
RawFetchError(answer) ==
    CASE answer = "offline" -> TypeErr("Failed to fetch")
      [] answer = "errorBody"
            -> TypeErr("Cannot read properties of undefined (reading 'country')")

\* What the bootstrap's requests fail with when the user denies the location, when
\* the device is offline and when the geocoding key is refused (part_002 236-323)
BootErrors ==
    { Err("Geolocation permission denied. Please enable location access to use this feature."),
      Err("Network error during reverse geocoding. Please check your internet connection."),
      Err("Invalid API key for geocoding service") }

\* an entry of the list is undefined (reading a property of it throws a TypeError)
HasUndefined(list) == \E i \in 1 .. Len(list) : list[i] = Undefined

\* the duplicate test of validateCityName comparing the names as they are
isDuplicate_CaseSensitive(list, cityName) ==
    \E i \in 1 .. Len(list) : list[i].name = cityName

\* props.cities.some(city => city.name.toLowerCase() === trimmedName.toLowerCase())
isDuplicate(list, cityName) ==
    \E i \in 1 .. Len(list) : Lower(list[i].name) = Lower(cityName)

\* saveCitiesToStorage (81-88): what is left in storage, and globalError afterwards
saveCitiesToStorage(list, ge) ==
    LET r == saveCities(lsEnv, lsItem, list, now)
    IN  [ item        |-> r.item,
          globalError |-> IF r.raised # NULL THEN Str(SaveFailedMessage) ELSE ge ]

\* SettingsMode is created anew whenever it is shown
SettingsModeFresh == errorMessage' = "" /\ draggedIndex' = NULL

\* the management list is on screen and the user is not in the middle of a drag
CanClick ==
    mounted /\ ~life.disposed /\ ~hasError /\ mode = "settings" /\ draggedIndex = NULL

FreeSlots == { i \in 1 .. MaxOps : ops[i].pc = "idle" }
InFlight == { i \in 1 .. MaxOps : ops[i].pc # "idle" }

\* onMounted (324-332): loadCitiesFromStorage, then the bootstrap if nothing was stored
Mount ==
    LET r == getCities(lsEnv, lsItem)
    IN  /\ ~mounted
        /\ mounted' = TRUE
        /\ cities' = r.cities
        /\ lsItem' = r.item
        /\ boot' = IF Len(r.cities) = 0
                   THEN [ pc |-> "running", attempt |-> 1, lastError |-> NULL,
                          viaRetry |-> FALSE ]
                   ELSE boot
        /\ UNCHANGED << mode, globalError, canRetry, lastFailedAction, ops, errorMessage,
                        draggedIndex, hasError, lsEnv, now, notWidget >>

\* the bootstrap's action (136-173) runs to its end: cities.value = [city]; save.
\* A city is created at Date.now(), and the next one a millisecond or more later.
BootSucceed ==
    LET list == << NewCity(DevicePlace, now) >>
        sv   == saveCitiesToStorage(list, globalError)
    IN  /\ boot.pc = "running"
        /\ now <= MaxNow
        /\ now' = now + 1
        /\ cities' = list
        /\ lsItem' = sv.item
        /\ globalError' = sv.globalError
        /\ lastFailedAction' = IF boot.viaRetry THEN NULL ELSE lastFailedAction
        /\ boot' = [ boot EXCEPT !.pc = "done", !.lastError = NULL ]
        /\ UNCHANGED << mode, canRetry, ops, mounted, errorMessage, draggedIndex, hasError,
                        lsEnv, notWidget >>

\* one of the bootstrap's requests fails with e: retryLastAction swallows it (98-103);
\* under initializeWithGeolocation the retry loop waits or gives up, and the catch
\* block (184-200) reports
BootFail(e) ==
    /\ boot.pc = "running"
    /\ e \in BootErrors
    /\ IF boot.viaRetry
       THEN /\ boot' = [ boot EXCEPT !.pc = "done" ]
            /\ UNCHANGED << mode, globalError, canRetry, lastFailedAction, errorMessage,
                            draggedIndex >>
       ELSE LET c == RetryCatch(boot.attempt, e, INIT_MAX_ATTEMPTS, INIT_DELAY_MS,
                                DefaultBackoffMultiplier, "returns")
            IN  IF c.next = "wait"
                THEN /\ boot' = [ boot EXCEPT !.pc = "waiting", !.lastError = c.error ]
                     /\ UNCHANGED << mode, globalError, canRetry, lastFailedAction,
                                     errorMessage, draggedIndex >>
                ELSE /\ boot' = [ boot EXCEPT !.pc = "done", !.lastError = NULL ]
                     /\ lastFailedAction' = IF isTransientError(c.error)
                                            THEN [ kind |-> "init" ] ELSE lastFailedAction
                     /\ canRetry' = IF isTransientError(c.error) THEN TRUE ELSE canRetry
                     /\ globalError' = Str(getUserFriendlyMessage(c.error))
                     /\ mode' = "settings"
                     /\ IF mode = "display" THEN SettingsModeFresh
                        ELSE UNCHANGED << errorMessage, draggedIndex >>
    /\ UNCHANGED << cities, ops, mounted, hasError, lsItem, lsEnv, now, notWidget >>

\* the backoff delay of the bootstrap is over
BootTimer ==
    /\ boot.pc = "waiting"
    /\ boot' = [ boot EXCEPT !.pc = "running", !.attempt = @ + 1 ]
    /\ UNCHANGED << cities, mode, globalError, canRetry, lastFailedAction, ops, mounted,
                    errorMessage, draggedIndex, hasError, lsItem, lsEnv, now, notWidget >>

\* toggleMode always switching to the settings mode
toggleMode_OneWay ==
    /\ mounted /\ ~life.disposed /\ ~hasError /\ draggedIndex = NULL
    /\ mode' = "settings"
    /\ globalError' = NULL
    /\ SettingsModeFresh
    /\ UNCHANGED << cities, canRetry, lastFailedAction, ops, boot, mounted, hasError,
                    lsItem, lsEnv, now, notWidget >>

\* toggleMode (206-211), from DisplayMode's settings button or SettingsMode's close button
toggleMode ==
    /\ mounted /\ ~life.disposed /\ ~hasError /\ draggedIndex = NULL
    /\ mode' = IF mode = "display" THEN "settings" ELSE "display"
    /\ globalError' = NULL
    /\ SettingsModeFresh
    /\ UNCHANGED << cities, canRetry, lastFailedAction, ops, boot, mounted, hasError,
                    lsItem, lsEnv, now, notWidget >>

\* removeCity with the filter keeping the city instead of the others (=== for !==)
removeCity_FilterInverted(cityId) ==
    /\ IF Len(cities) = 1
       THEN /\ globalError' = Str(LastCityMessage)
            /\ UNCHANGED << cities, lsItem >>
       ELSE LET list == SelectSeq(cities, LAMBDA city : city.id = cityId)
                sv   == saveCitiesToStorage(list, NULL)
            IN  /\ cities' = list
                /\ lsItem' = sv.item
                /\ globalError' = sv.globalError
    /\ UNCHANGED << mode, canRetry, lastFailedAction, ops, boot, mounted, errorMessage,
                    draggedIndex, hasError, lsEnv, now, notWidget >>

\* removeCity (292-307)
removeCity(cityId) ==
    /\ IF Len(cities) = 1
       THEN /\ globalError' = Str(LastCityMessage)
            /\ UNCHANGED << cities, lsItem >>
       ELSE LET list == SelectSeq(cities, LAMBDA city : city.id # cityId)
                sv   == saveCitiesToStorage(list, NULL)
            IN  /\ cities' = list
                /\ lsItem' = sv.item
                /\ globalError' = sv.globalError
    /\ UNCHANGED << mode, canRetry, lastFailedAction, ops, boot, mounted, errorMessage,
                    draggedIndex, hasError, lsEnv, now, notWidget >>

\* the ids a remove-city event can carry: those of the list, and one of no city
RemovableIds == { cities[i].id : i \in 1 .. Len(cities) } \cup { << "Lima", "PE", 0 >> }

\* removeCity reached by a remove-city event
RemoveCity == CanClick /\ \E cityId \in RemovableIds : removeCity(cityId)

\* SettingsMode.handleRemoveCity (196-203): the delete button; nothing is emitted for
\* the last city
handleRemoveCity ==
    /\ CanClick
    /\ \E i \in 1 .. Len(cities) :
          IF Len(cities) = 1
          THEN UNCHANGED << widgetVars, lsItem, lsEnv, now, notWidget >>
          ELSE removeCity(cities[i].id)

\* reorderCities (312-321), and the render that follows: SettingsMode reads city.id
\* of every entry, which throws for an undefined one and trips the ErrorBoundary
reorderCities(newOrder) ==
    LET sv == saveCitiesToStorage(newOrder, NULL)
    IN  /\ cities' = newOrder
        /\ lsItem' = sv.item
        /\ globalError' = sv.globalError
        /\ hasError' = HasUndefined(newOrder)
        /\ UNCHANGED << mode, canRetry, lastFailedAction, ops, boot, mounted, errorMessage,
                        draggedIndex, lsEnv, now, notWidget >>

\* SettingsMode.handleDragStart (208-217) on the item at `index`
handleDragStart(index) ==
    /\ CanClick
    /\ index \in 0 .. Len(cities) - 1
    /\ draggedIndex' = Num(index)
    /\ UNCHANGED << cities, mode, globalError, canRetry, lastFailedAction, ops, boot,
                    mounted, errorMessage, hasError, lsItem, lsEnv, now, notWidget >>

\* the list handleDrop (237-266) emits for a dragged and a drop index
DropOrder(list, draggedIdx, dropIdx) ==
    LET draggedCity == IF draggedIdx < Len(list) THEN list[draggedIdx + 1] ELSE Undefined
    IN  SpliceIn(SpliceOut(list, draggedIdx), dropIdx, draggedCity)

\* SettingsMode.handleDrop (237-266) on the item at `dropIndex`
handleDrop(dropIndex) ==
    /\ mounted /\ ~hasError /\ mode = "settings"
    /\ draggedIndex # NULL
    /\ dropIndex \in 0 .. Len(cities) - 1
    /\ draggedIndex.num # dropIndex
    /\ reorderCities(DropOrder(cities, draggedIndex.num, dropIndex))

\* SettingsMode.handleDragEnd (271-274)
handleDragEnd ==
    /\ mounted /\ ~hasError /\ mode = "settings"
    /\ draggedIndex # NULL
    /\ draggedIndex' = NULL
    /\ UNCHANGED << cities, mode, globalError, canRetry, lastFailedAction, ops, boot,
                    mounted, errorMessage, hasError, lsItem, lsEnv, now, notWidget >>

\* ErrorBoundary.handleReset, then handleErrorReset (118-130)
handleErrorReset ==
    /\ hasError
    /\ hasError' = FALSE
    /\ lsItem' = clearCities(lsEnv, lsItem)
    /\ cities' = << >>
    /\ mode' = "settings"
    /\ globalError' = NULL
    /\ canRetry' = FALSE
    /\ lastFailedAction' = NULL
    /\ SettingsModeFresh
    /\ UNCHANGED << ops, boot, mounted, lsEnv, now, notWidget >>

\* ErrorBoundary.handleRetry, then handleErrorRetry (110-113): the page is loaded
\* again, and only localStorage survives
handleErrorRetry ==
    /\ hasError
    /\ WidgetAsConstructed
    /\ UNCHANGED << lsItem, lsEnv, now, notWidget >>

\* what is typed into the add field: city names, nothing, and blanks
TypedInputs == { "PARIS", "Roma", "  ", "" }

\* validateCityName without its test for an empty name
validateCityName_NoEmptyTest(cityName) ==
    IF isDuplicate(cities, Trim(cityName)) THEN DuplicateMessage ELSE ""

\* validateCityName (142-160): the error, or "" for a valid name
validateCityName(cityName) ==
    LET trimmedName == Trim(cityName)
    IN  IF trimmedName = "" THEN "City name cannot be empty"
        ELSE IF isDuplicate(cities, trimmedName) THEN DuplicateMessage
        ELSE ""

\* addCity (217-286) up to its first await: errors cleared, the first attempt's
\* lookup under way in slot i
addCityStarts(i, cityName, viaRetry) ==
    /\ i \in FreeSlots
    /\ Len(cities) + Cardinality(InFlight) < MaxCities
    /\ globalError' = NULL
    /\ canRetry' = FALSE
    /\ ops' = [ ops EXCEPT ![i] = [ pc |-> "lookup", name |-> cityName, attempt |-> 1,
                                    lastError |-> NULL, viaRetry |-> viaRetry ] ]

\* SettingsMode.handleAddCity (165-184) with `typed` in the field
handleAddCity(typed) ==
    LET trimmedName == Trim(typed)
        error == validateCityName(trimmedName)
    IN  /\ CanClick
        /\ typed \in TypedInputs
        /\ IF error # ""
           THEN /\ errorMessage' = error
                /\ UNCHANGED << globalError, canRetry, ops >>
           ELSE /\ errorMessage' = ""
                /\ \E i \in FreeSlots : addCityStarts(i, trimmedName, FALSE)
        /\ UNCHANGED << cities, mode, lastFailedAction, boot, mounted, draggedIndex,
                        hasError, lsItem, lsEnv, now, notWidget >>

\* addCity's promise settles in slot i: retryLastAction (98-100), when it is the
\* caller, then sets lastFailedAction to null
addCitySettles(i, failedAction) ==
    /\ ops' = [ ops EXCEPT ![i] = IdleOp ]
    /\ lastFailedAction' = IF ops[i].viaRetry THEN NULL ELSE failedAction

\* an attempt of addCity's action fails with e in slot i: the catch block of
\* retryWithBackoff (160-178), and addCity's own (270-285) when the loop gives up
addCityAttemptFails(i, e) ==
    LET c == RetryCatch(ops[i].attempt, e, ADD_MAX_ATTEMPTS, ADD_DELAY_MS,
                        ADD_BACKOFF_MULTIPLIER, "returns")
    IN  IF c.next = "wait"
        THEN /\ ops' = [ ops EXCEPT ![i].pc = "waiting", ![i].lastError = c.error ]
             /\ UNCHANGED << globalError, canRetry, lastFailedAction >>
        ELSE /\ canRetry' = IF isTransientError(c.error) THEN TRUE ELSE canRetry
             /\ globalError' = Str(getUserFriendlyMessage(c.error))
             /\ addCitySettles(i, IF isTransientError(c.error)
                                  THEN [ kind |-> "add", cityName |-> ops[i].name ]
                                  ELSE lastFailedAction)

\* cities.value.some(...) of addCity (223-225): "throws" when an undefined entry is
\* reached before a match
DuplicateCheck(list, cityName) ==
    LET hits == { i \in 1 .. Len(list) :
                    \/ list[i] = Undefined
                    \/ Lower(list[i].name) = Lower(cityName) }
    IN  IF hits = { } THEN "none"
        ELSE LET first == CHOOSE i \in hits : \A j \in hits : i <= j
             IN  IF list[first] = Undefined THEN "throws" ELSE "duplicate"

\* getWeatherByCity of slot i settles with the provider's answer (218-231). A cached
\* entry answers as "ok" does.
addCityLookup(i, answer) ==
    /\ i \in 1 .. MaxOps
    /\ ops[i].pc = "lookup"
    /\ answer \in AnswersToLookup
    /\ IF answer # "ok"
       THEN addCityAttemptFails(i, FetchError(answer))
       ELSE LET check == DuplicateCheck(cities, ops[i].name)
            IN  CASE check = "throws"
                       -> addCityAttemptFails(i,
                            TypeErr("Cannot read properties of undefined (reading 'name')"))
                  [] check = "duplicate"
                       -> /\ globalError' = Str(DuplicateMessage)
                          /\ addCitySettles(i, lastFailedAction)
                          /\ UNCHANGED canRetry
                  [] check = "none"
                       -> /\ ops' = [ ops EXCEPT ![i].pc = "fetch" ]
                          /\ UNCHANGED << globalError, canRetry, lastFailedAction >>
    /\ UNCHANGED << cities, mode, boot, mounted, errorMessage, draggedIndex, hasError,
                    lsItem, lsEnv, now, notWidget >>

\* addCity's own request of slot i settles (232-253): the city is pushed and the
\* list saved
addCityFetch(i, answer) ==
    /\ i \in 1 .. MaxOps
    /\ ops[i].pc = "fetch"
    /\ answer \in AnswersToFetch
    /\ IF answer # "ok"
       THEN /\ addCityAttemptFails(i, RawFetchError(answer))
            /\ UNCHANGED << cities, lsItem, now >>
       ELSE LET list == Append(cities, NewCity(ProviderPlace(ops[i].name), now))
                sv   == saveCitiesToStorage(list, globalError)
            IN  /\ now <= MaxNow
                /\ now' = now + 1
                /\ cities' = list
                /\ lsItem' = sv.item
                /\ globalError' = sv.globalError
                /\ addCitySettles(i, lastFailedAction)
                /\ UNCHANGED canRetry
    /\ UNCHANGED << mode, boot, mounted, errorMessage, draggedIndex, hasError, lsEnv,
                    notWidget >>

\* the backoff delay of slot i is over: the next attempt's lookup starts
addCityTimer(i) ==
    /\ i \in 1 .. MaxOps
    /\ ops[i].pc = "waiting"
    /\ ops' = [ ops EXCEPT ![i].pc = "lookup", ![i].attempt = @ + 1,
                            ![i].lastError = NULL ]
    /\ UNCHANGED << cities, mode, globalError, canRetry, lastFailedAction, boot, mounted,
                    errorMessage, draggedIndex, hasError, lsItem, lsEnv, now, notWidget >>

\* retryLastAction (93-105), from the Retry button of the error banner
retryLastAction ==
    /\ mounted
    /\ globalError # NULL /\ canRetry
    /\ lastFailedAction # NULL
    /\ IF lastFailedAction.kind = "init"
       THEN /\ boot.pc \in { "none", "done" }
            /\ boot' = [ pc |-> "running", attempt |-> 1, lastError |-> NULL,
                         viaRetry |-> TRUE ]
            /\ globalError' = NULL
            /\ canRetry' = FALSE
            /\ UNCHANGED ops
       ELSE /\ \E i \in FreeSlots : addCityStarts(i, lastFailedAction.cityName, TRUE)
            /\ UNCHANGED boot
    /\ UNCHANGED << cities, mode, lastFailedAction, mounted, errorMessage, draggedIndex,
                    hasError, lsItem, lsEnv, now, notWidget >>

\* a place of an earlier session
Oslo == [ name |-> "Oslo", country |-> "NO", lat |-> Num(60), lon |-> Num(11) ]

\* records a previous session may have left under STORAGE_KEY
StoredAtStart ==
    { NoItem,
      Garbage,
      Stringify(<< NewCity(ProviderPlace("Paris"), 0), NewCity(ProviderPlace("Roma"), 0),
                   NewCity(Oslo, 0) >>, 0) }

\* the condition localStorage is in during a session of the widget; "full" is to the
\* widget what "unavailable" is, the probe of isStorageAvailable failing in both
SessionConditions == { "ok", "nearlyFull", "unavailable" }

Init ==
    /\ InitWidget
    /\ lsItem \in StoredAtStart
    /\ lsEnv \in SessionConditions
    /\ now = 1
    /\ rt = IdleRetry /\ cache = IdleCache /\ lookup = IdleLookup /\ st = IdleStorage
    /\ life = IdleLife /\ cl = IdleClassify /\ wind = IdleWind

Next ==
    \/ Mount
    \/ BootSucceed
    \/ \E e \in BootErrors : BootFail(e)
    \/ BootTimer
    \/ toggleMode
    \/ \E typed \in TypedInputs : handleAddCity(typed)
    \/ \E i \in 1 .. MaxOps, answer \in AnswersToLookup : addCityLookup(i, answer)
    \/ \E i \in 1 .. MaxOps, answer \in AnswersToFetch : addCityFetch(i, answer)
    \/ \E i \in 1 .. MaxOps : addCityTimer(i)
    \/ RemoveCity
    \/ handleRemoveCity
    \/ \E index \in 0 .. MaxCities : handleDragStart(index)
    \/ \E dropIndex \in 0 .. MaxCities : handleDrop(dropIndex)
    \/ handleDragEnd
    \/ retryLastAction
    \/ handleErrorReset
    \/ handleErrorRetry

Spec == Init /\ [][Next]_vars

-----------------------------------------------------------------------------
(* SpecLifecycle: the timers of the widget, DisplayMode's refresh interval     *)
(* (src/src/components/DisplayMode.vue 122-147) and the backoff delays of the  *)
(* retry loops, up to and after the removal of the widget from the page.       *)

\* how many refresh intervals are set up, and how often one fires
MaxIntervals == 2
MaxRefreshes == 1

\* <DisplayMode v-if="mode === 'display'"> inside the ErrorBoundary's slot
DisplayShown == ~life.disposed /\ mode = "display" /\ ~hasError

\* cleanupPeriodicRefresh (132-137)
cleanupPeriodicRefresh(l) ==
    IF l.refreshIntervalId # NULL
    THEN [ l EXCEPT !.intervals = @ \ { l.refreshIntervalId.num },
                    !.refreshIntervalId = NULL ]
    ELSE l

\* the ids of the cities fetchWeatherForAllCities (95-110) asks the weather of:
\* those of props.cities when it is called
CityIds(list) == { list[i].id : i \in { j \in 1 .. Len(list) : list[j] # Undefined } }

\* DisplayMode comes on screen: onMounted (140-143) fetches and sets the interval up
DisplayModeMounted ==
    /\ DisplayShown /\ ~life.displayMounted
    /\ life.made < MaxIntervals
    /\ life' = [ life EXCEPT !.displayMounted = TRUE,
                             !.requested = CityIds(cities),
                             !.made = @ + 1,
                             !.intervals = @ \cup { life.made + 1 },
                             !.refreshIntervalId = Num(life.made + 1) ]
    /\ UNCHANGED notLifecycle

\* DisplayMode leaves the screen (the mode changed): onUnmounted (145-147)
DisplayModeUnmounted ==
    /\ ~life.disposed
    /\ ~DisplayShown /\ life.displayMounted
    /\ life' = [ cleanupPeriodicRefresh(life) EXCEPT !.displayMounted = FALSE,
                                                     !.requested = { } ]
    /\ UNCHANGED notLifecycle

\* an interval that was not cleared fires: fetchWeatherForAllCities (124-126)
RefreshFires ==
    /\ life.intervals # { }
    /\ life.refreshes < MaxRefreshes
    /\ life' = [ life EXCEPT !.refreshes = @ + 1,
                             !.requested = IF life.displayMounted
                                           THEN @ \cup CityIds(cities) ELSE @ ]
    /\ UNCHANGED notLifecycle

\* The widget element is removed from the page and its component tree unmounted:
\* DisplayMode, if on screen, runs onUnmounted; WeatherWidget.vue registers no
\* unmount hook and retryWithBackoff's setTimeout (errorHandler.ts 177) has no handle.
Teardown ==
    /\ mounted /\ ~life.disposed
    /\ life' = [ (IF life.displayMounted THEN cleanupPeriodicRefresh(life) ELSE life)
                   EXCEPT !.displayMounted = FALSE, !.disposed = TRUE,
                          !.requested = { } ]
    /\ UNCHANGED notLifecycle

InitLifecycle ==
    /\ InitWidget
    /\ lsItem = NoItem /\ lsEnv = "ok" /\ now = 1
    /\ rt = IdleRetry /\ cache = IdleCache /\ lookup = IdleLookup /\ st = IdleStorage
    /\ life = IdleLife /\ cl = IdleClassify /\ wind = IdleWind

NextLifecycle ==
    \/ Mount
    \/ BootSucceed
    \/ \E e \in BootErrors : BootFail(e)
    \/ BootTimer
    \/ toggleMode
    \/ \E typed \in TypedInputs : handleAddCity(typed)
    \/ \E i \in 1 .. MaxOps, answer \in AnswersToLookup : addCityLookup(i, answer)
    \/ \E i \in 1 .. MaxOps, answer \in AnswersToFetch : addCityFetch(i, answer)
    \/ \E i \in 1 .. MaxOps : addCityTimer(i)
    \/ DisplayModeMounted
    \/ DisplayModeUnmounted
    \/ RefreshFires
    \/ Teardown

SpecLifecycle == InitLifecycle /\ [][NextLifecycle]_vars

-----------------------------------------------------------------------------
(* SpecClassify: the failures the weather client and the geocoding client     *)
(* raise, as the catch blocks of the widget classify them                      *)
(* (WeatherWidget.vue 187-196 and 273-284).                                    *)

\* how many failures a behaviour classifies
MaxFailures == 2

\* What makes getWeatherByCity (part_002 358-379) fail: the answers
\* fetchWithErrorHandling throws for, and an answer that passes isValidResponse
\* (468-489) with a weather array holding null, on which transformResponse throws
WeatherFailures ==
    { "429", "404", "401", "500", "503", "malformed", "notJson", "offline", "loadFailed",
      "nullWeather" }

getWeatherError(answer) ==
    IF answer = "nullWeather"
    THEN TypeErr("Cannot read properties of null (reading 'description')")
    ELSE FetchError(answer)

\* What makes getCityFromCoordinates (part_002 282-323) fail
GeocodingFailures ==
    { "401", "404", "429", "500", "empty", "noName", "nullEntry", "offline", "loadFailed" }

getCityError(answer) ==
    CASE answer = "401" -> Err("Invalid API key for geocoding service")
      [] answer = "404" -> Err("Geocoding request failed with status 404")
      [] answer = "429" -> Err("Geocoding request failed with status 429")
      [] answer = "500" -> Err("Geocoding request failed with status 500")
      [] answer = "empty" -> Err("No location found for the given coordinates")
      [] answer = "noName" -> Err("Invalid geocoding response format")
      \* data[0] is null: `location.name` throws
      [] answer = "nullEntry" -> TypeErr("Cannot read properties of null (reading 'name')")
      [] answer = "offline"
            -> Err("Network error during reverse geocoding. Please check your internet connection.")
      [] answer = "loadFailed" -> TypeErr("Load failed")

\* the catch block: isTransientError decides on the Retry button,
\* getUserFriendlyMessage gives the message
Classified(client, answer, e) ==
    [ client    |-> client,
      answer    |-> answer,
      error     |-> e,
      transient |-> isTransientError(AsError(e)),
      message   |-> getUserFriendlyMessage(AsError(e)) ]

WeatherFails(answer) ==
    /\ Len(cl) < MaxFailures
    /\ cl' = Append(cl, Classified("weather", answer, getWeatherError(answer)))
    /\ UNCHANGED notClassify

GeocodingFails(answer) ==
    /\ Len(cl) < MaxFailures
    /\ cl' = Append(cl, Classified("geocoding", answer, getCityError(answer)))
    /\ UNCHANGED notClassify

\* the codes (ErrorCodes, 40-48) and messages of the typed errors of the model
TypedCodes == { "RATE_LIMIT_ERROR", "NETWORK_ERROR" }
TypedMessages == { "", "Slow down" }

\* a failure made with createError reaches the catch block
TypedFails(code, message) ==
    /\ Len(cl) < MaxFailures
    /\ cl' = Append(cl, Classified("typed", code, createError(message, code)))
    /\ UNCHANGED notClassify

InitClassify ==
    /\ InitWidget
    /\ lsItem = NoItem /\ lsEnv = "ok" /\ now = 0
    /\ rt = IdleRetry /\ cache = IdleCache /\ lookup = IdleLookup /\ st = IdleStorage
    /\ life = IdleLife /\ cl = IdleClassify /\ wind = IdleWind

NextClassify ==
    \/ \E answer \in WeatherFailures : WeatherFails(answer)
    \/ \E answer \in GeocodingFailures : GeocodingFails(answer)
    \/ \E code \in TypedCodes, message \in TypedMessages : TypedFails(code, message)

SpecClassify == InitClassify /\ [][NextClassify]_vars

-----------------------------------------------------------------------------
(* SpecWind: the wind direction of transformResponse (part_002 495-525) *)

\* the largest wind bearing the provider reports, in degrees
MaxDegrees == 360

\* const directions = ['N', 'NNE', ... , 'NNW'] (522)
directions ==
    << "N", "NNE", "NE", "ENE", "E", "ESE", "SE", "SSE",
       "S", "SSW", "SW", "WSW", "W", "WNW", "NW", "NNW" >>

\* Math.round(degrees / 22.5) for a whole number of degrees: the largest integer
\* not above degrees / 22.5 + 0.5, which is (4 * degrees + 45) / 90
RoundOver22_5(degrees) == (4 * degrees + 45) \div 90

\* degreesToDirection with Math.floor for Math.round
degreesToDirection_Floor(degrees) == directions[(((4 * degrees) \div 90) % 16) + 1]

\* degreesToDirection (521-525)
degreesToDirection(degrees) == directions[(RoundOver22_5(degrees) % 16) + 1]

\* transformResponse (495-516) on a response whose wind.deg is degrees
transformWind(degrees) ==
    /\ wind' = [ degrees |-> Num(degrees), direction |-> degreesToDirection(degrees) ]
    /\ UNCHANGED notWind

InitWind ==
    /\ InitWidget
    /\ lsItem = NoItem /\ lsEnv = "ok" /\ now = 0
    /\ rt = IdleRetry /\ cache = IdleCache /\ lookup = IdleLookup /\ st = IdleStorage
    /\ life = IdleLife /\ cl = IdleClassify /\ wind = IdleWind

NextWind == \E degrees \in 0 .. MaxDegrees : transformWind(degrees)

SpecWind == InitWind /\ [][NextWind]_vars

-----------------------------------------------------------------------------
(* Claims about the widget (Spec) *)

\* the city list the record under STORAGE_KEY holds: none for no record and for a
\* record getCities would not accept
Persisted == getCities("ok", lsItem).cities

\* C1: once the city list is non-empty it is never empty again, whichever of Add,
\* Remove, Reorder, ToggleMode, retry-last-action and error-boundary reset is
\* performed (loading the page again starts another session).
C1_Claim == [][ (Len(cities) > 0 /\ mounted') => Len(cities') > 0 ]_vars

\* C2: removeCity on a list of exactly one city leaves the list and the record
\* alone and sets an error message; on a list of two or more cities, one of which
\* has the id, the list becomes the previous list without that city, the others in
\* their order, one shorter, and that list is what storage, when it takes the
\* write, holds afterwards.
C2_Remove ==
    [][ CanClick => \A cityId \in RemovableIds :
          removeCity(cityId) =>
            IF Len(cities) = 1
            THEN /\ cities' = cities
                 /\ lsItem' = lsItem
                 /\ globalError' = Str(LastCityMessage)
            ELSE \A k \in 1 .. Len(cities) :
                    ( /\ cities[k].id = cityId
                      /\ \A j \in 1 .. Len(cities) : cities[j].id = cityId => j = k )
                    => /\ cities' = SubSeq(cities, 1, k - 1) \o SubSeq(cities, k + 1, Len(cities))
                       /\ Len(cities') = Len(cities) - 1
                       /\ lsEnv = "ok" => /\ lsItem' = Stringify(cities', now)
                                          /\ Persisted' = cities' ]_vars

\* the last of the cities was refused removal, and the record still holds it
C2_Witness ==
    /\ mounted
    /\ Len(cities) = 1
    /\ globalError = Str(LastCityMessage)
    /\ Persisted = cities

C4_Claim == [][ (globalError' # NULL /\ globalError' # globalError) => cities' = cities ]_vars

\* C5: with storage at hand, the record holds the in-memory city list (the same
\* cities in the same order) after every completed bootstrap, Add, Remove and
\* Reorder, also when the save raised.
C5_Claim == (mounted /\ isStorageAvailable(lsEnv) /\ ~hasError) => Persisted = cities

\* the failures the propagation policy has as terminal: invalid credential, not
\* found, malformed payload
TerminalFailures == { FetchError("401"), FetchError("404"), FetchError("malformed"),
                      Err("Invalid API key for geocoding service") }

\* C6: Add and the bootstrap never wait to make another attempt after a terminal
\* failure.
C6_Claim ==
    /\ \A i \in 1 .. MaxOps : ops[i].pc = "waiting" => ops[i].lastError \notin TerminalFailures
    /\ boot.pc = "waiting" => boot.lastError \notin TerminalFailures

\* C14: onMounted takes a non-empty stored list as the in-memory list and starts
\* no bootstrap; with nothing stored the bootstrap runs, and when it has finished
\* either the list is exactly the bootstrapped city and is the persisted list, or
\* the mode is settings, a non-empty message is shown and the list is still empty.
C14_Claim ==
    [][ /\ (~mounted /\ mounted') =>
             LET stored == getCities(lsEnv, lsItem).cities
             IN  IF Len(stored) > 0
                 THEN cities' = stored /\ boot'.pc = "none"
                 ELSE boot'.pc = "running"
        /\ (boot.pc = "running" /\ ~boot.viaRetry /\ boot'.pc = "done") =>
             \/ /\ cities' = << NewCity(DevicePlace, now) >>
                /\ Persisted' = cities'
             \/ /\ mode' = "settings"
                /\ globalError' \notin { NULL, Str("") }
                /\ cities' = << >> ]_vars

\* C15: the mode is always one of display and settings; toggleMode switches it
\* to the other value (so a second toggle restores it), clears globalError, and
\* leaves the in-memory list and the persisted record as they were.
C15_Toggle ==
    /\ [](mode \in { "display", "settings" })
    /\ [][ toggleMode =>
             /\ mode' \in { "display", "settings" } \ { mode }
             /\ globalError' = NULL
             /\ cities' = cities
             /\ lsItem' = lsItem ]_vars

\* back in display mode after a city was added in settings mode: the mode was
\* toggled there and back, and list and record are the two cities
C15_Witness ==
    /\ mounted /\ ~hasError
    /\ mode = "display"
    /\ globalError = NULL
    /\ boot.pc = "done"
    /\ Len(cities) = 2
    /\ Persisted = cities

\* list a holds the cities of list b, each once, and nothing else
IsPermutation(a, b) ==
    /\ Len(a) = Len(b)
    /\ { a[i] : i \in 1 .. Len(a) } = { b[i] : i \in 1 .. Len(b) }
    /\ \A i, j \in 1 .. Len(a) : a[i] = a[j] => i = j

\* C16: after every reorder a drop of the management list makes, the in-memory
\* list is a permutation of the list before it (same cities, same length, no
\* undefined and no repeated entry) and, storage taking the write, is the
\* persisted list.
C16_Claim ==
    [][ \A dropIndex \in 0 .. MaxCities :
          handleDrop(dropIndex) =>
            /\ IsPermutation(cities', cities)
            /\ lsEnv = "ok" => Persisted' = cities' ]_vars

-----------------------------------------------------------------------------
(* Claims about retryWithBackoff (SpecRetry) *)

Finished(run) == run.pc \in { "resolved", "rejected" }

\* the failures of every invocation so far, in order
AllFailed(run) == \A k \in 1 .. Len(run.results) : "fail" \in DOMAIN run.results[k]

\* C7: retryWithBackoff with maxAttempts = n >= 1 invokes the operation at most n
\* times; when every attempt fails it has waited delayMs * backoffMultiplier^(k-1)
\* before attempt k+1 for k = 1 .. n-1, waits no more after the n-th failure, and
\* rejects with the very value the last attempt failed with.
C7_Claim ==
    LET run == rt.run["observed"]
        n   == rt.cfg.maxAttempts
    IN  rt.cfg # NULL =>
          /\ run.calls <= n
          /\ \A k \in 1 .. Len(run.waits) :
                run.waits[k] = rt.cfg.delayMs * Pow(rt.cfg.backoffMultiplier, k - 1)
          /\ Len(run.waits) <= n - 1
          /\ (run.pc = "rejected" /\ AllFailed(run)) =>
                /\ run.calls = n
                /\ Len(run.waits) = n - 1
                /\ run.outcome = [ rejected |-> run.results[run.calls].fail ]

\* C8: whatever the onRetry observer does, the attempts, the waits between them
\* and the final result or failure are those of the run without an observer.
C8_Claim ==
    rt.cfg # NULL =>
      LET a == rt.run["observed"]
          b == rt.run["plain"]
      IN  (Finished(a) /\ Finished(b)) =>
            /\ a.calls = b.calls
            /\ a.results = b.results
            /\ a.waits = b.waits
            /\ a.outcome = b.outcome

\* the attempt numbers 1 .. n in order
UpTo(n) == [ j \in 1 .. n |-> j ]

\* C30: a run given an onRetry stops at the first success: when attempt k succeeds
\* it resolves with that attempt's result, the operation was invoked k times (k-1
\* failures, then the success) and onRetry was called with 1 .. k-1 in order, and
\* this stays so in every later state; when all maxAttempts attempts were made and
\* failed, onRetry was called with 1 .. maxAttempts-1, not for the final failure.
C30_FirstSuccess ==
    rt.cfg # NULL =>
      \A r \in RunIds :
        LET run == rt.run[r]
            n   == rt.cfg.maxAttempts
        IN  ObserverOf(r) # "none" =>
              /\ run.pc = "resolved" =>
                    \E k \in 1 .. n :
                        /\ run.outcome = [ resolved |-> k ]
                        /\ run.calls = k
                        /\ "ok" \in DOMAIN run.results[k]
                        /\ \A j \in 1 .. k - 1 : "fail" \in DOMAIN run.results[j]
                        /\ run.observed = UpTo(k - 1)
              /\ (run.calls = n /\ AllFailed(run) /\ run.pc # "call") =>
                    /\ run.pc = "rejected"
                    /\ run.observed = UpTo(n - 1)

\* the third attempt succeeded after two failures that onRetry was told of
C30_Witness ==
    /\ rt.cfg # NULL
    /\ rt.cfg.onRetry = "returns"
    /\ rt.run["observed"].pc = "resolved"
    /\ rt.run["observed"].calls = 3
    /\ rt.run["observed"].observed = << 1, 2 >>

-----------------------------------------------------------------------------
(* Claims about the weather cache (SpecCache) *)

\* C9 as stated: a lookup at time t of an entry stored at time s answers from the
\* cache, without contacting the provider, when t - s < 10 minutes, and discards
\* the entry and contacts the provider when t - s >= 10 minutes.
C9_Claim ==
    [][ \A i \in Instances, n \in LookupNames :
          LET e == cache[i][CityKey(n)]
          IN  (CacheLookup(i, n) /\ e # NoEntry) =>
                IF now - e.timestamp < CACHE_DURATION_MS
                THEN /\ lookup'.last.data = e.data
                     /\ ~lookup'.last.contacted
                ELSE /\ lookup'.last.contacted
                     /\ cache'[i][CityKey(n)] = NoEntry ]_vars

\* C9 as amended: the entry answers the lookup while t - s <= 10 minutes (the
\* cache and the requests in flight are left alone); it is discarded and the
\* provider is contacted when t - s > 10 minutes.
C9_Amended ==
    [][ \A i \in Instances, n \in LookupNames :
          LET e == cache[i][CityKey(n)]
          IN  (CacheLookup(i, n) /\ e # NoEntry) =>
                IF now - e.timestamp <= CACHE_DURATION_MS
                THEN /\ lookup'.last.data = e.data
                     /\ ~lookup'.last.contacted
                     /\ lookup'.pending = lookup.pending
                     /\ cache' = cache
                ELSE /\ lookup'.last.contacted
                     /\ lookup'.last.data = NULL
                     /\ [ inst |-> i, name |-> n ] \in lookup'.pending
                     /\ cache'[i][CityKey(n)] = NoEntry ]_vars

\* a lookup was answered from the cache by an entry exactly 10 minutes old
C9_Witness ==
    /\ lookup.last # NULL
    /\ ~lookup.last.contacted
    /\ lookup.last.at - lookup.last.data.fetchedAt = CACHE_DURATION_MS

\* C18: the refresh of DisplayMode and the fetches of the widget (Add validation,
\* bootstrap) use one cache: a lookup of a key for which either of them stored a
\* snapshot less than 10 minutes ago is answered from the cache.
C18_Claim ==
    [][ \A i \in Instances, n \in LookupNames :
          (/\ CacheLookup(i, n)
           /\ \E j \in Instances :
                LET e == cache[j][CityKey(n)]
                IN  e # NoEntry /\ now - e.timestamp < CACHE_DURATION_MS)
          => ~lookup'.last.contacted ]_vars

\* the coordinate pairs getWeatherByCoordinates is called with
LookupCoordinates == { << DevicePlace.lat, DevicePlace.lon >>,
                       << ProviderPlace("Roma").lat, ProviderPlace("Roma").lon >> }

\* C19: the key of a by-name lookup is the lowercased and trimmed name: a lookup
\* of a name that equals, after lowercasing and trimming, a name whose snapshot
\* was stored less than 10 minutes ago is a hit; and no by-name key equals a
\* by-coordinates key.
C19_Claim ==
    /\ [][ \A i \in Instances, n \in LookupNames :
             (/\ CacheLookup(i, n)
              /\ \E m \in LookupNames :
                   LET e == cache[i][CityKey(m)]
                   IN  /\ Trim(Lower(m)) = Trim(Lower(n))
                       /\ e # NoEntry /\ now - e.timestamp < CACHE_DURATION_MS)
             => ~lookup'.last.contacted ]_vars
    /\ [](\A n \in LookupNames, c \in LookupCoordinates : CityKey(n) # CoordsKey(c[1], c[2]))

-----------------------------------------------------------------------------
(* Claims about the persistence adapter (SpecStorage) *)

\* a valid TrackedCity has finite coordinates
WellFormed(list) ==
    \A i \in 1 .. Len(list) :
        IsFiniteNum(list[i].coordinates.lat) /\ IsFiniteNum(list[i].coordinates.lon)

\* the last call was a getCities, made with storage available, after a saveCities
\* of a valid list that returned normally with storage available
SavedThenLoaded ==
    /\ st.loaded # NULL
    /\ "cities" \in DOMAIN st.loaded
    /\ isStorageAvailable(st.loaded.env)
    /\ st.lastSave # NULL
    /\ st.lastSave.raised = NULL
    /\ isStorageAvailable(st.lastSave.env)
    /\ WellFormed(st.lastSave.list)

\* C10: saveCities(list) followed by getCities() returns the saved list: the same
\* length and order and, city by city, the same id, name, country, coordinates
\* and addedAt; the latest save is the one read back.
C10_RoundTrip == SavedThenLoaded => st.loaded.cities = st.lastSave.list

\* a two-city list was read back after it had replaced an earlier, different save
C10_Witness ==
    /\ SavedThenLoaded
    /\ st.replaced
    /\ Len(st.lastSave.list) = 2
    /\ st.lastSave.list[1] # st.lastSave.list[2]
    /\ st.loaded.cities = st.lastSave.list

\* a record getCities cannot use: no JSON text, JSON that fails the schema
\* validation, or a schema at another version
Unusable(item) ==
    /\ item # NoItem
    /\ \/ "doc" \notin DOMAIN item
       \/ ~isValidSchema(item.doc)
       \/ Get(item.doc, "version") # Num(STORAGE_VERSION)

\* the last call was a getCities
Loaded == st.loaded # NULL /\ "cities" \in DOMAIN st.loaded

\* C11: when the persisted record is not valid JSON, fails the schema validation
\* or carries another version, getCities() returns the empty list and the record
\* is absent from storage afterwards (storage being readable at the call).
C11_Claim ==
    (Loaded /\ st.loaded.env # "unavailable" /\ Unusable(st.loaded.from)) =>
        /\ st.loaded.cities = << >>
        /\ lsItem = NoItem

\* the conditions of localStorage under which the probe of isStorageAvailable fails
ProbeFailing == { "full", "unavailable" }

\* C12: with the availability probe failing, getCities() returns the empty list
\* and leaves storage alone, saveCities() returns without writing and without
\* raising, clearCities() returns without raising; clearCities() on available,
\* empty storage does not raise and leaves it empty.
C12_Degrades ==
    [][ /\ lsEnv \in ProbeFailing =>
             /\ StLoad => (st'.loaded.cities = << >> /\ lsItem' = lsItem)
             /\ \A list \in TestLists :
                    StSave(list) => (st'.lastSave.raised = NULL /\ lsItem' = lsItem)
             /\ StClear => (st'.loaded.raised = NULL /\ lsItem' = lsItem)
        /\ (lsEnv \in { "ok", "nearlyFull" } /\ lsItem = NoItem /\ StClear) =>
             (st'.loaded.raised = NULL /\ lsItem' = NoItem) ]_vars

\* a save of two cities made while the probe failed returned normally and wrote nothing
C12_Witness ==
    /\ st.lastSave # NULL
    /\ st.lastSave.env \in ProbeFailing
    /\ st.lastSave.raised = NULL
    /\ Len(st.lastSave.list) = 2
    /\ lsItem = NoItem

\* C13: whenever the store rejects the write of the record for lack of capacity,
\* also when it is so full that the probe's test write is rejected, saveCities
\* raises the capacity-exceeded failure to its caller.
C13_Claim ==
    (st.lastSave # NULL /\ st.lastSave.env \in { "nearlyFull", "full" }) =>
        st.lastSave.raised = Err(QuotaMessage)

-----------------------------------------------------------------------------
(* Claims about the timers (SpecLifecycle) *)

\* C17: after the widget is torn down no timer it started fires: not the refresh
\* interval of DisplayMode, and no backoff delay of a retry in flight (of the
\* bootstrap or of an addCity) resumes and runs its operation again.
C17_Claim ==
    [][ life.disposed =>
          ~(\/ RefreshFires
            \/ BootTimer
            \/ \E i \in 1 .. MaxOps : addCityTimer(i)) ]_vars

-----------------------------------------------------------------------------
(* Claims about the classification of failures (SpecClassify) *)

\* what a failure is, by its cause (for a typed error, its code)
FailureKind(answer) ==
    CASE answer = "401" -> "credential"
      [] answer = "404" -> "notFound"
      [] answer \in { "429", "RATE_LIMIT_ERROR" } -> "rateLimit"
      [] answer \in { "offline", "loadFailed", "NETWORK_ERROR" } -> "network"
      [] answer \in { "500", "503", "empty" } -> "provider"
      [] answer \in { "malformed", "notJson", "nullWeather", "noName", "nullEntry" } -> "format"

\* C20: isTransientError classifies every failure the weather and the geocoding
\* client raise as required: network and rate-limit failures are retryable;
\* invalid-credential, not-found, format and generic provider failures are not.
C20_Claim ==
    \A k \in 1 .. Len(cl) :
        cl[k].client \in { "weather", "geocoding" } =>
            cl[k].transient = (FailureKind(cl[k].answer) \in { "network", "rateLimit" })

\* the sentence of each failure category (errorHandler.ts 238-260)
Sentence(kind) ==
    CASE kind = "credential"
            -> "Weather service configuration error. Please contact the website administrator."
      [] kind = "network"
            -> "Unable to connect to the weather service. Please check your internet connection."
      [] kind = "rateLimit" -> "Too many requests. Please try again in a few moments."
      [] kind = "notFound" -> "City not found. Please check the name and try again."
      [] OTHER -> "An unexpected error occurred. Please try again."

\* C21: getUserFriendlyMessage gives every failure a non-empty message, the same
\* sentence to all failures of one category (rate-limited, not-found,
\* unauthorized, network each their own) and the generic sentence to the rest.
C21_Claim ==
    \A k \in 1 .. Len(cl) :
        /\ cl[k].message # ""
        /\ cl[k].message = Sentence(FailureKind(cl[k].answer))

-----------------------------------------------------------------------------
(* Claims about Add (Spec) *)

\* the inputs that are empty once trimmed
BlankInputs == { typed \in TypedInputs : Trim(typed) = "" }

\* C23: an Add whose input is empty or blank is rejected by the settings form: no
\* request of the weather client is started, the list and the stored record
\* stay as they are, and the form shows an error message.
C23_BlankRejected ==
    [][ \A typed \in BlankInputs :
            handleAddCity(typed) =>
                /\ ops' = ops
                /\ cities' = cities
                /\ lsItem' = lsItem
                /\ errorMessage' # "" ]_vars

\* the form shows the message of the empty name, and no Add is under way
C23_Witness == errorMessage = "City name cannot be empty" /\ InFlight = { }

\* C24: no two cities of the list have names that are equal when case is ignored.
C24_Claim ==
    \A i, j \in 1 .. Len(cities) :
        (i # j /\ cities[i] # Undefined /\ cities[j] # Undefined)
            => Lower(cities[i].name) # Lower(cities[j].name)

\* the cities of the list that the step takes out of it
TakenOut ==
    { i \in 1 .. Len(cities) :
        /\ cities[i] # Undefined
        /\ \A j \in 1 .. Len(cities') : cities'[j] # cities[i] }

\* C25: a city stays in the list until a Remove, a Reorder or a reset takes it
\* out; the completion of the bootstrap takes none out.
C25_Claim ==
    [][ TakenOut # { } =>
            \/ RemoveCity
            \/ handleRemoveCity
            \/ \E dropIndex \in 0 .. MaxCities : handleDrop(dropIndex)
            \/ handleErrorReset
            \/ handleErrorRetry ]_vars

\* the error banner shows its Retry button (23-31)
RetryOffered == globalError # NULL /\ canRetry

\* C26: whenever canRetry holds there is a stored action to run again, and a
\* message shown with the Retry button is the message of a failure that can be
\* retried (a connectivity or rate-limit failure), never that of another
\* operation such as the refused removal of the last city.
C26_Claim ==
    /\ canRetry => lastFailedAction # NULL
    /\ RetryOffered =>
          globalError \in { Str(Sentence("network")), Str(Sentence("rateLimit")) }

\* the step ends a bootstrap that the Retry button started, with a failure
BootRetryFails == boot.viaRetry /\ \E e \in BootErrors : BootFail(e)

\* the step ends an Add that the Retry button started, and no city was added
AddRetryFails ==
    \E i \in 1 .. MaxOps :
        /\ ops[i].viaRetry
        /\ ops'[i].pc = "idle"
        /\ cities' = cities
        /\ \/ \E answer \in AnswersToLookup : addCityLookup(i, answer)
           \/ \E answer \in AnswersToFetch : addCityFetch(i, answer)

\* C27: when the operation run again by Retry fails again, a message is shown
\* once the retry has finished, for a stored Add and for a stored bootstrap.
C27_Claim ==
    [][ (AddRetryFails \/ BootRetryFails) => globalError' # NULL ]_vars

-----------------------------------------------------------------------------
(* Claims about the periodic refresh and the cache (SpecCache) *)

\* the refresh period of the DisplayMode on screen that instant t falls in: 0 from
\* its mount to the first tick, 1 from the first tick to the second, ...
TickOf(t) == (t - lookup.shownAt) \div REFRESH_INTERVAL_MS

\* C29: a lookup of the display surface never returns a snapshot fetched in an
\* earlier refresh period: what the previous tick cached has expired by then.
C29_Claim ==
    LET l == lookup.last
    IN  ( /\ l # NULL
          /\ l.inst = "display"
          /\ l.data # NULL
          /\ l.data.fetchedAt >= lookup.shownAt )
            => TickOf(l.data.fetchedAt) = TickOf(l.at)

-----------------------------------------------------------------------------
(* Claims about the display surface (SpecLifecycle) *)

\* C28: when the list becomes non-empty while DisplayMode is mounted, the weather
\* of every listed city is requested then, not only at the next refresh tick.
C28_Claim ==
    [][ ( /\ life.displayMounted /\ life'.displayMounted
          /\ Len(cities) = 0 /\ Len(cities') > 0 )
            => CityIds(cities') \subseteq life'.requested ]_vars

-----------------------------------------------------------------------------
(* Claims about the wind direction (SpecWind) *)

\* the compass point of table entry number i, counted from 0 at N clockwise
CompassPoint(i) ==
    CASE i = 0 -> "N"   [] i = 1 -> "NNE"  [] i = 2 -> "NE"   [] i = 3 -> "ENE"
      [] i = 4 -> "E"   [] i = 5 -> "ESE"  [] i = 6 -> "SE"   [] i = 7 -> "SSE"
      [] i = 8 -> "S"   [] i = 9 -> "SSW"  [] i = 10 -> "SW"  [] i = 11 -> "WSW"
      [] i = 12 -> "W"  [] i = 13 -> "WNW" [] i = 14 -> "NW"  [] i = 15 -> "NNW"

\* C22: for a whole wind bearing d the label is entry round(d / 22.5) mod 16 of
\* the compass table, r = round(d / 22.5) being the whole number with
\* |d - 22.5 * r| < 11.25; bearings 349..360 and 0..11 give N, 90 E, 180 S, 270 W.
C22_Direction ==
    wind.degrees # NULL =>
        LET d == wind.degrees.num
        IN  /\ \E r \in 0 .. (MaxDegrees \div 22) + 1 :
                /\ 4 * d - 90 * r < 45
                /\ 90 * r - 4 * d < 45
                /\ r % 16 \in 0 .. 15
                /\ wind.direction = CompassPoint(r % 16)
            /\ (d \in 349 .. 360 \/ d \in 0 .. 11) => wind.direction = "N"
            /\ d = 90 => wind.direction = "E"
            /\ d = 180 => wind.direction = "S"
            /\ d = 270 => wind.direction = "W"
            /\ d \in { 12, 348 } => wind.direction # "N"

\* a bearing just west of north was labelled N: round(349 / 22.5) = 16, 16 mod 16 = 0
C22_Witness == wind.degrees = Num(349) /\ wind.direction = "N"

====
